---- MODULE Spec2Model ----
(***************************************************************************)
(* StorageOrganizer: the entity store (src/server/storage.ts) and the HTTP *)
(* handlers over it (src/server/routes.ts): item create, partial update,   *)
(* delete, the import merge loop, create and delete of containers,         *)
(* categories and size options, the reads (item and size option listings,  *)
(* search, export), and two imports served concurrently.                   *)
(*                                                                         *)
(* Encoding of JavaScript values:                                          *)
(*   - an id / categoryId / containerId of 0 stands for an absent          *)
(*     (undefined or null) field; real ids are positive;                   *)
(*   - NoName stands for an absent name, NoPos for an absent position      *)
(*     (only partial updates omit the position);                           *)
(*   - NoQuantity stands for an absent quantity, NoInfo for an absent or   *)
(*     null information text;                                              *)
(*   - NoSortOrder stands for an absent sortOrder;                         *)
(*   - an import entry of kind "null" is a JSON null in the items array;   *)
(*   - a grid row is [columns, isDivider]: columns 0 and isDivider FALSE   *)
(*     stand for an absent key; JSON text is a sequence of tokens.         *)
(***************************************************************************)
EXTENDS Integers, Sequences, FiniteSets, TLC

VARIABLES
    backend,             \* which IStorage implementation is exported as `storage`
    storageContainers,   \* ids of the existing containers
    gridConfigs,         \* container id -> its gridConfig rows, as persisted
    currentContainerId,  \* next container id
    categories,          \* ids of the existing categories
    items,               \* id -> item record (the items Map / table)
    currentItemId,       \* next item id
    request,             \* the last request received
    response,            \* the answer to it
    before,              \* the item store as the request found it
    trace,               \* import only: per processed record, outcome and store
    nreq,                \* number of requests served (container creation aside)
    currentCategoryId,   \* next category id
    sizeOptions,         \* id -> size option record (sortOrder)
    currentSizeOptionId, \* next size option id
    assigned,            \* per kind, the ids assigned before the last request
    maxreq,              \* number of requests a run serves
    imports              \* the import requests in flight, by connection

vars == <<backend, storageContainers, gridConfigs, currentContainerId, categories, items,
          currentItemId, request, response, before, trace, nreq,
          currentCategoryId, sizeOptions, currentSizeOptionId, assigned, maxreq,
          imports>>

containerVars == <<storageContainers, gridConfigs, currentContainerId>>
categoryVars == <<categories, currentCategoryId>>
sizeOptionVars == <<sizeOptions, currentSizeOptionId>>

(***************************************************************************)
(* Bounds of the model.                                                    *)
(***************************************************************************)
MaxItemId == 3
MaxContainers == 1
MaxBatch == 2
MaxRequests == 2
MaxStoreRequests == 3
MaxQueryRequests == 3

(***************************************************************************)
(* Program constants.                                                      *)
(***************************************************************************)
NumDefaultCategories == 5
NumDefaultSizeOptions == 5

(***************************************************************************)
(* Value domains of the requests.                                          *)
(***************************************************************************)
NoName == "none"
NoPos == [row |-> -1, column |-> -1]
NoQuantity == -1
NoInfo == "none"
NoSortOrder == -1
Names == {"a", "b"}
Positions == {[row |-> 0, column |-> 0], [row |-> 0, column |-> 1]}
ContainerIds == 1..(MaxContainers + 1)
RecordIds == 0..2

Rec(id, name, containerId, position, categoryId, category) ==
    [kind |-> "obj", id |-> id, name |-> name, containerId |-> containerId,
     position |-> position, categoryId |-> categoryId, category |-> category,
     quantity |-> NoQuantity, information |-> NoInfo]

\* a JSON null in the items array
NullEntry == [kind |-> "null", id |-> 0, name |-> NoName, containerId |-> 0,
              position |-> NoPos, categoryId |-> 0, category |-> 0,
              quantity |-> NoQuantity, information |-> NoInfo]

\* well-formed records for container 1, without and with id
CoreRecords ==
    {Rec(0, n, 1, p, 0, 0) : n \in Names, p \in Positions}
    \cup {Rec(id, "b", 1, p, 0, 0) : id \in RecordIds \ {0}, p \in Positions}

\* records the database rejects: no name, or a container that may not exist
OddRecords ==
    {Rec(id, NoName, 1, [row |-> 0, column |-> 0], 0, 0) : id \in {0, 2}}
    \cup {Rec(id, "a", MaxContainers + 1, [row |-> 0, column |-> 0], 0, 0) :
             id \in {0, 1}}

\* records that carry a categoryId and/or an embedded category object;
\* NumDefaultCategories + 1 is the id of a category that does not exist
CategoryRecords ==
    {Rec(0, "a", 1, [row |-> 0, column |-> 0], c[1], c[2]) :
        c \in {<<1, 0>>, <<0, 2>>, <<1, 2>>, <<NumDefaultCategories + 1, 0>>}}
    \cup {Rec(2, "a", 1, [row |-> 0, column |-> 0], NumDefaultCategories + 1, 0)}

Records == CoreRecords \cup OddRecords \cup CategoryRecords \cup {NullEntry}

\* records used in batches of two entries
TupleRecords ==
    {Rec(0, "a", 1, [row |-> 0, column |-> 0], 0, 0),
     Rec(0, "b", 1, [row |-> 0, column |-> 0], 0, 0),
     Rec(0, "b", 1, [row |-> 0, column |-> 1], 0, 0),
     Rec(0, NoName, 1, [row |-> 0, column |-> 0], 0, 0),
     NullEntry}

\* records used in longer batches
LongRecords ==
    {Rec(0, "a", 1, [row |-> 0, column |-> 0], 0, 0),
     Rec(0, "b", 1, [row |-> 0, column |-> 1], 0, 0),
     NullEntry}

(***************************************************************************)
(* The item store.  A store value is [items, next]: the items Map (or      *)
(* table) and the id counter (or serial sequence).  Store calls return the *)
(* new store together with `threw` (the call rejected) and the id touched. *)
(***************************************************************************)

\* Constraints of the items table, enforced by the database only:
\* name NOT NULL, container_id NOT NULL REFERENCES storage_containers,
\* category_id REFERENCES categories.  `data` is the row being written.
violatesSchema(data) ==
    \/ data.name = NoName
    \/ data.containerId \notin storageContainers
    \/ (data.categoryId # 0 /\ data.categoryId \notin categories)

\* mutant: the update replaces the record, an absent field is lost
mergeItem_Replace(existing, data) ==
    [name |-> data.name, containerId |-> data.containerId,
     position |-> data.position, categoryId |-> data.categoryId,
     quantity |-> data.quantity, information |-> data.information]

\* { ...existing, ...item }: a supplied field replaces, an absent one is kept
mergeItem(existing, data) ==
    [name       |-> IF data.name # NoName THEN data.name ELSE existing.name,
     containerId |-> IF data.containerId # 0 THEN data.containerId
                     ELSE existing.containerId,
     position   |-> IF data.position # NoPos THEN data.position
                    ELSE existing.position,
     categoryId |-> IF data.categoryId # 0 THEN data.categoryId
                    ELSE existing.categoryId,
     quantity   |-> IF data.quantity # NoQuantity THEN data.quantity
                    ELSE existing.quantity,
     information |-> IF data.information # NoInfo THEN data.information
                     ELSE existing.information]

\* the columns of InsertItem a request body or import record supplies
itemData(rec) ==
    [name |-> rec.name, containerId |-> rec.containerId,
     position |-> rec.position, categoryId |-> rec.categoryId,
     quantity |-> rec.quantity, information |-> rec.information]

\* the quantity a create persists.  MemStorage: item.quantity || 1, so an
\* absent quantity and a quantity of 0 both give 1; DatabaseStorage: the
\* column default 1 applies when the quantity is absent
defaultQuantity(quantity) ==
    IF backend = "mem"
    THEN IF quantity = NoQuantity \/ quantity = 0 THEN 1 ELSE quantity
    ELSE IF quantity = NoQuantity THEN 1 ELSE quantity

\* the row a create persists: the supplied columns with the defaults applied
newItem(data) == [data EXCEPT !.quantity = defaultQuantity(data.quantity)]

\* mutant: the lookup by id never finds the item
getItem_NeverFound(st, id) == 0

getItem(st, id) == IF id \in DOMAIN st.items THEN id ELSE 0

\* mutant: the id counter is not advanced, so the next create reuses the id
createItem_NoIncrement(st, data) ==
    IF backend = "db" /\ violatesSchema(data)
    THEN [threw |-> TRUE, items |-> st.items, next |-> st.next, id |-> 0]
    ELSE [threw |-> FALSE,
          items |-> (st.next :> newItem(data)) @@ st.items,
          next  |-> st.next,
          id    |-> st.next]

createItem(st, data) ==
    IF backend = "db" /\ violatesSchema(data)
    THEN [threw |-> TRUE, items |-> st.items, next |-> st.next, id |-> 0]
    ELSE [threw |-> FALSE,
          items |-> (st.next :> newItem(data)) @@ st.items,
          next  |-> st.next + 1,
          id    |-> st.next]

updateItem(st, id, data) ==
    IF id \notin DOMAIN st.items
    THEN [threw |-> FALSE, items |-> st.items, next |-> st.next, id |-> 0]
    ELSE IF backend = "db" /\ violatesSchema(mergeItem(st.items[id], data))
    THEN [threw |-> TRUE, items |-> st.items, next |-> st.next, id |-> 0]
    ELSE [threw |-> FALSE,
          items |-> [st.items EXCEPT ![id] = mergeItem(@, data)],
          next  |-> st.next,
          id    |-> id]

\* `id` is 0 when the call reports that nothing was deleted.  The database
\* store reports `result.changes > 0`; the result of a Postgres delete has
\* no `changes`, so it reports false whether or not a row was deleted.
deleteItem(st, id) ==
    [threw |-> FALSE,
     items |-> [i \in DOMAIN st.items \ {id} |-> st.items[i]],
     next  |-> st.next,
     id    |-> IF backend = "mem" /\ id \in DOMAIN st.items THEN id ELSE 0]

(***************************************************************************)
(* Position lookup used by the import.                                     *)
(***************************************************************************)
Min(S) == CHOOSE x \in S : \A y \in S : x <= y

occupants(its, containerId, position) ==
    {i \in DOMAIN its : /\ its[i].containerId = containerId
                        /\ its[i].position.row = position.row
                        /\ its[i].position.column = position.column}

\* the item at (containerId, position), 0 when the cell is free
getItemByPosition(st, containerId, position) ==
    IF occupants(st.items, containerId, position) = {} THEN 0
    ELSE Min(occupants(st.items, containerId, position))

(***************************************************************************)
(* POST /api/import: the per-record merge.                                 *)
(***************************************************************************)

\* mutant: the embedded category object overrides a supplied categoryId
cleanItem_CategoryWins(rec) ==
    [rec EXCEPT !.categoryId = IF rec.category # 0 THEN rec.category
                               ELSE rec.categoryId,
                !.category = 0]

\* const { category, ...cleanItem } = item;
\* if (category && !cleanItem.categoryId) cleanItem.categoryId = category.id
cleanItem(rec) ==
    [rec EXCEPT !.categoryId = IF rec.category # 0 /\ rec.categoryId = 0
                               THEN rec.category ELSE rec.categoryId,
                !.category = 0]

\* item.name || `Item at position ...`
itemName(rec) == IF rec.name # NoName THEN rec.name ELSE "Item at position"

\* what one record did: its counter and the store it leaves
Outcome(r, ok) ==
    [outcome |-> IF r.threw THEN "failed" ELSE ok, items |-> r.items,
     next |-> r.next, id |-> r.id]

\* mutant: the update by id first removes a different item at the target cell
updateById_Evicting(st, clean, existingAtPosition) ==
    LET d == IF existingAtPosition # 0 /\ existingAtPosition # clean.id
             THEN deleteItem(st, existingAtPosition)
             ELSE [threw |-> FALSE, items |-> st.items, next |-> st.next, id |-> 0]
    IN  Outcome(updateItem([items |-> d.items, next |-> d.next], clean.id,
                           itemData(clean)), "updated")

\* id present and an item with that id exists: update it, no position check
updateById(st, clean, existingAtPosition) ==
    Outcome(updateItem(st, clean.id, itemData(clean)), "updated")

\* mutant: the item is created under the id the record carries
createEvicting_KeepId(st, clean, existingAtPosition) ==
    LET d == IF existingAtPosition # 0 /\ existingAtPosition # clean.id
             THEN deleteItem(st, existingAtPosition)
             ELSE [threw |-> FALSE, items |-> st.items, next |-> st.next, id |-> 0]
    IN  IF backend = "db" /\ violatesSchema(itemData(clean))
        THEN Outcome(createItem([items |-> d.items, next |-> d.next],
                                itemData(clean)), "imported")
        ELSE Outcome([threw |-> FALSE,
                      items |-> (clean.id :> newItem(itemData(clean))) @@ d.items,
                      next |-> d.next, id |-> clean.id], "imported")

\* id present but unknown: remove a different item at the position, then create
createEvicting(st, clean, existingAtPosition) ==
    LET d == IF existingAtPosition # 0 /\ existingAtPosition # clean.id
             THEN deleteItem(st, existingAtPosition)
             ELSE [threw |-> FALSE, items |-> st.items, next |-> st.next, id |-> 0]
    IN  Outcome(createItem([items |-> d.items, next |-> d.next], itemData(clean)),
                "imported")

\* mutant: a record without id is always created, the position is not looked at
mergeAtPosition_AlwaysCreate(st, clean, existingAtPosition) ==
    Outcome(createItem(st, itemData(clean)), "imported")

\* no id: replace the item at the position, or create a new one
mergeAtPosition(st, clean, existingAtPosition) ==
    IF existingAtPosition # 0
    THEN Outcome(updateItem(st, existingAtPosition, itemData(clean)), "updated")
    ELSE Outcome(createItem(st, itemData(clean)), "imported")

\* the store calls of one record, given the position lookup's answer;
\* a call that throws ends the record in the catch block ("failed")
mergeRecord(st, clean, existingAtPosition) ==
    IF clean.id # 0
    THEN IF getItem(st, clean.id) # 0
         THEN updateById(st, clean, existingAtPosition)
         ELSE createEvicting(st, clean, existingAtPosition)
    ELSE mergeAtPosition(st, clean, existingAtPosition)

\* mutant: the position lookup reads the store as it was before the batch
importRecord_StaleLookup(st, rec) ==
    IF rec.kind = "null"
    THEN [outcome |-> "aborted", items |-> st.items, next |-> st.next, id |-> 0,
          found |-> 0]
    ELSE LET existingAtPosition ==
                 getItemByPosition([items |-> items, next |-> currentItemId],
                                   cleanItem(rec).containerId,
                                   cleanItem(rec).position)
         IN  [found |-> existingAtPosition]
             @@ mergeRecord(st, cleanItem(rec), existingAtPosition)

\* one iteration of `for (const item of items)`.  Destructuring a null entry
\* throws; the catch block then evaluates item.name on null and throws
\* again, out of the loop, into the handler's outer catch ("aborted").
\* `found` is the answer of the position lookup (0: none, or not reached).
importRecord(st, rec) ==
    IF rec.kind = "null"
    THEN [outcome |-> "aborted", items |-> st.items, next |-> st.next, id |-> 0,
          found |-> 0]
    ELSE LET existingAtPosition ==
                 getItemByPosition(st, cleanItem(rec).containerId,
                                   cleanItem(rec).position)
         IN  [found |-> existingAtPosition]
             @@ mergeRecord(st, cleanItem(rec), existingAtPosition)

\* the loop: L is [items, next, imported, updated, failed, errors, aborted, trace]
RECURSIVE importLoop(_, _, _)
importLoop(batch, k, L) ==
    IF k > Len(batch) \/ L.aborted THEN L
    ELSE LET r == importRecord([items |-> L.items, next |-> L.next], batch[k])
         IN  importLoop(batch, k + 1,
               [items    |-> r.items,
                next     |-> r.next,
                imported |-> L.imported + (IF r.outcome = "imported" THEN 1 ELSE 0),
                updated  |-> L.updated + (IF r.outcome = "updated" THEN 1 ELSE 0),
                failed   |-> L.failed
                             + (IF r.outcome \in {"failed", "aborted"} THEN 1 ELSE 0),
                errors   |-> IF r.outcome = "failed"
                             THEN Append(L.errors, itemName(batch[k]))
                             ELSE L.errors,
                aborted  |-> r.outcome = "aborted",
                trace    |-> Append(L.trace, [outcome |-> r.outcome,
                                              items |-> r.items,
                                              next |-> r.next,
                                              id |-> r.id,
                                              found |-> r.found])])

importAll(batch) ==
    importLoop(batch, 1,
               [items |-> items, next |-> currentItemId, imported |-> 0,
                updated |-> 0, failed |-> 0, errors |-> <<>>,
                aborted |-> FALSE, trace |-> <<>>])

(***************************************************************************)
(* GET /api/export, items part: every item with its resolved category, in  *)
(* the store's iteration order (ascending id).                             *)
(***************************************************************************)
RECURSIVE idsInOrder(_)
idsInOrder(S) == IF S = {} THEN <<>> ELSE <<Min(S)>> \o idsInOrder(S \ {Min(S)})

\* { ...item, category: item.categoryId ? categories.get(item.categoryId) : undefined }
withCategory(its, id) ==
    [kind |-> "obj", id |-> id, name |-> its[id].name,
     containerId |-> its[id].containerId, position |-> its[id].position,
     categoryId |-> its[id].categoryId,
     category |-> IF its[id].categoryId \in categories THEN its[id].categoryId
                  ELSE 0,
     quantity |-> its[id].quantity, information |-> its[id].information]

getItems(its) ==
    [k \in 1..Cardinality(DOMAIN its) |-> withCategory(its, idsInOrder(DOMAIN its)[k])]

(***************************************************************************)
(* Requests and responses.                                                 *)
(***************************************************************************)
NoData == [name |-> NoName, containerId |-> 0, position |-> NoPos, categoryId |-> 0,
           quantity |-> NoQuantity, information |-> NoInfo]

\* `payload` is the kind of value the body's `items` field holds
Req(op, id, data, batch) ==
    [op |-> op, id |-> id, data |-> data, batch |-> batch,
     payload |-> IF op = "import" THEN "array" ELSE "none"]

\* bodies of POST /api/import whose `items` is not an array: no such field,
\* an object, a non-empty string
PayloadKinds == {"missing", "object", "string"}

\* mutant: the check only tests that `items` is there
isItemsArray_Truthy(payload) == payload # "missing"

\* !(!items || !Array.isArray(items))
isItemsArray(payload) == payload # "missing" /\ payload = "array"

\* a response without an import summary
Plain(status) == [status |-> status, imported |-> 0, updated |-> 0, failed |-> 0,
                  total |-> 0, errors |-> <<>>]

ItemBodies ==
    [name : {"a"}, containerId : ContainerIds,
     position : Positions, categoryId : {0}, quantity : {NoQuantity},
     information : {NoInfo}]
    \cup {NoData}

Patches ==
    {[NoData EXCEPT !.name = "b"]}
    \cup {[NoData EXCEPT !.position = p] : p \in Positions}
    \cup {[NoData EXCEPT !.containerId = MaxContainers + 1]}

Batches ==
    {<<>>} \cup {<<r>> : r \in Records}
    \cup (IF MaxBatch >= 2
          THEN {<<r1, r2>> : r1 \in TupleRecords, r2 \in TupleRecords}
          ELSE {})
    \cup UNION {[1..n -> LongRecords] : n \in 3..MaxBatch}

Store == [items |-> items, next |-> currentItemId]

\* the ids of the items a request's records left in the store on the way
idsIn(tr) == UNION {DOMAIN tr[k].items : k \in 1..Len(tr)}

Served(req, resp, tr) ==
    /\ request' = req
    /\ response' = resp
    /\ before' = Store
    /\ trace' = tr
    /\ assigned' = [item       |-> assigned.item \cup DOMAIN items \cup idsIn(trace),
                    container  |-> assigned.container \cup storageContainers,
                    category   |-> assigned.category \cup categories,
                    sizeOption |-> assigned.sizeOption \cup DOMAIN sizeOptions]
    /\ UNCHANGED <<backend, maxreq, imports>>

(***************************************************************************)
(* Containers, categories and size options.  A category or size option     *)
(* body is "fresh" (a name no record has) or "taken" (the name of an       *)
(* existing record: the database's UNIQUE constraint rejects it).          *)
(***************************************************************************)
CategoryBodies == {"fresh", "taken"}
SizeOptionBodies == {[name |-> "fresh", sortOrder |-> 0],
                     [name |-> "fresh", sortOrder |-> 2],
                     [name |-> "fresh", sortOrder |-> NoSortOrder],
                     [name |-> "taken", sortOrder |-> 0]}
\* PATCH bodies of a size option: a new sortOrder, or another column only
SizeOptionPatches == {[sortOrder |-> 3], [sortOrder |-> NoSortOrder]}
UpdatableSizeOptionIds == {1, NumDefaultSizeOptions + 1}
DeletableContainerIds == {1}
DeletableItemIds == {1}
DeletableCategoryIds == {1, NumDefaultCategories + 1}
DeletableSizeOptionIds == {1, NumDefaultSizeOptions + 1}

createCategory(body) ==
    IF backend = "db" /\ body = "taken" /\ categories # {}
    THEN [threw |-> TRUE, categories |-> categories, next |-> currentCategoryId,
          id |-> 0]
    ELSE [threw |-> FALSE, categories |-> categories \cup {currentCategoryId},
          next |-> currentCategoryId + 1, id |-> currentCategoryId]

\* the database refuses to delete a category an item references
deleteCategory(id) ==
    IF backend = "db" /\ \E i \in DOMAIN items : items[i].categoryId = id
    THEN [threw |-> TRUE, categories |-> categories, existed |-> FALSE]
    ELSE [threw |-> FALSE, categories |-> categories \ {id},
          existed |-> backend = "mem" /\ id \in categories]

\* MemStorage: sizeOption.sortOrder || 0; DatabaseStorage: the column
\* default 0 applies when the sortOrder is absent
defaultSortOrder(sortOrder) ==
    IF backend = "mem"
    THEN IF sortOrder = NoSortOrder \/ sortOrder = 0 THEN 0 ELSE sortOrder
    ELSE IF sortOrder = NoSortOrder THEN 0 ELSE sortOrder

createSizeOption(body) ==
    IF backend = "db" /\ body.name = "taken" /\ DOMAIN sizeOptions # {}
    THEN [threw |-> TRUE, sizeOptions |-> sizeOptions,
          next |-> currentSizeOptionId, id |-> 0]
    ELSE [threw |-> FALSE,
          sizeOptions |-> (currentSizeOptionId :>
                             [sortOrder |-> defaultSortOrder(body.sortOrder)])
                          @@ sizeOptions,
          next |-> currentSizeOptionId + 1, id |-> currentSizeOptionId]

\* { ...existing, ...sizeOption }; id 0: no such size option
updateSizeOption(id, patch) ==
    IF id \notin DOMAIN sizeOptions THEN [sizeOptions |-> sizeOptions, id |-> 0]
    ELSE [sizeOptions |->
              [sizeOptions EXCEPT ![id] =
                  [sortOrder |-> IF patch.sortOrder # NoSortOrder
                                 THEN patch.sortOrder ELSE @.sortOrder]],
          id |-> id]

\* The listings a read of the size options can return.  MemStorage sorts
\* the Map's values, which are in insertion order, with a stable sort on
\* sortOrder.  DatabaseStorage asks ORDER BY sort_order and nothing else,
\* which leaves the order of rows of equal sortOrder to the database.
RECURSIVE sortedListings(_, _)
sortedListings(opts, S) ==
    IF S = {} THEN {<<>>}
    ELSE LET lowest == {i \in S : \A j \in S :
                                     opts[i].sortOrder <= opts[j].sortOrder}
             first == IF backend = "mem" THEN {Min(lowest)} ELSE lowest
         IN  UNION {{<<[id |-> i, sortOrder |-> opts[i].sortOrder]>> \o rest :
                        rest \in sortedListings(opts, S \ {i})} : i \in first}

getSizeOptions == sortedListings(sizeOptions, DOMAIN sizeOptions)

deleteSizeOption(id) ==
    [threw |-> FALSE,
     sizeOptions |-> [i \in DOMAIN sizeOptions \ {id} |-> sizeOptions[i]],
     existed |-> backend = "mem" /\ id \in DOMAIN sizeOptions]

\* the database refuses to delete a container an item references
deleteStorageContainer(id) ==
    IF backend = "db" /\ \E i \in DOMAIN items : items[i].containerId = id
    THEN [threw |-> TRUE, storageContainers |-> storageContainers,
          existed |-> FALSE]
    ELSE [threw |-> FALSE, storageContainers |-> storageContainers \ {id},
          existed |-> backend = "mem" /\ id \in storageContainers]

(***************************************************************************)
(* The gridConfig of a container.  DatabaseStorage writes                  *)
(* JSON.stringify(gridConfig) and reads JSON.parse(row.gridConfig);        *)
(* MemStorage keeps the object.                                            *)
(***************************************************************************)
Row(columns, isDivider) == [columns |-> columns, isDivider |-> isDivider]
NoRow == Row(0, FALSE)
DefaultGrid == <<Row(2, FALSE)>>
GridConfigs == {DefaultGrid,
                <<Row(2, FALSE), Row(0, TRUE), Row(1, FALSE)>>,
                <<Row(0, TRUE), Row(3, FALSE)>>}

Numeral(n) == <<"0", "1", "2", "3", "4", "5", "6", "7", "8", "9">>[n + 1]
Number(text) == CHOOSE n \in 0..9 : Numeral(n) = text

\* mutant: the encoding writes the columns only
stringifyRow_ColumnsOnly(row) ==
    <<"{">> \o (IF row.columns # 0 THEN <<"columns", Numeral(row.columns)>>
                ELSE <<>>)
           \o <<"}">>

\* an object is written as its present keys, in order
stringifyRow(row) ==
    <<"{">> \o (IF row.columns # 0 THEN <<"columns", Numeral(row.columns)>>
                ELSE <<>>)
           \o (IF row.isDivider THEN <<"isDivider", "true">> ELSE <<>>)
           \o <<"}">>

RECURSIVE stringify(_)
stringify(rows) ==
    IF rows = <<>> THEN <<>>
    ELSE stringifyRow(Head(rows)) \o stringify(Tail(rows))

\* JSON.parse from token k on; `row` is the object being read
RECURSIVE parse(_, _, _)
parse(text, k, row) ==
    IF k > Len(text) THEN <<>>
    ELSE IF text[k] = "{" THEN parse(text, k + 1, NoRow)
    ELSE IF text[k] = "}" THEN <<row>> \o parse(text, k + 1, NoRow)
    ELSE IF text[k] = "columns"
    THEN parse(text, k + 2, [row EXCEPT !.columns = Number(text[k + 1])])
    ELSE parse(text, k + 2, [row EXCEPT !.isDivider = (text[k + 1] = "true")])

\* `returned` is the record the call returns
createStorageContainer(gridConfig) ==
    LET persisted == IF backend = "db" THEN stringify(gridConfig) ELSE gridConfig
    IN  [storageContainers |-> storageContainers \cup {currentContainerId},
         gridConfigs |-> (currentContainerId :> persisted) @@ gridConfigs,
         next |-> currentContainerId + 1,
         returned |-> [id |-> currentContainerId,
                       gridConfig |-> IF backend = "db"
                                      THEN parse(persisted, 1, NoRow)
                                      ELSE gridConfig]]

\* id 0: no such container
getStorageContainer(id) ==
    IF id \notin storageContainers THEN [id |-> 0, gridConfig |-> <<>>]
    ELSE [id |-> id,
          gridConfig |-> IF backend = "db" THEN parse(gridConfigs[id], 1, NoRow)
                         ELSE gridConfigs[id]]

\* the answer of a DELETE handler
Deleted(d) == Plain(IF d.threw THEN 500 ELSE IF d.existed THEN 204 ELSE 404)

\* two clients, each sending at most one import
Connections == 1..2
Idle == [pc |-> "idle", batch |-> <<>>, k |-> 0, found |-> 0]

(***************************************************************************)
(* The store after construction: no containers, no items, the default      *)
(* categories and size options.                                            *)
(***************************************************************************)
Constructed ==
    /\ backend \in {"mem", "db"}
    /\ storageContainers = {}
    /\ gridConfigs = <<>>
    /\ currentContainerId = 1
    /\ categories = 1..NumDefaultCategories
    /\ currentCategoryId = NumDefaultCategories + 1
    /\ sizeOptions = [i \in 1..NumDefaultSizeOptions |-> [sortOrder |-> i]]
    /\ currentSizeOptionId = NumDefaultSizeOptions + 1
    /\ items = <<>>
    /\ currentItemId = 1
    /\ request = Req("none", 0, NoData, <<>>)
    /\ response = Plain(0)
    /\ before = [items |-> <<>>, next |-> 1]
    /\ trace = <<>>
    /\ nreq = 0
    /\ assigned = [item |-> {}, container |-> {}, category |-> {},
                   sizeOption |-> {}]
    /\ imports = [p \in Connections |-> Idle]

Init == Constructed /\ maxreq = MaxRequests

\* POST /api/containers
CreateContainerReq(gridConfig) ==
    /\ currentContainerId <= MaxContainers
    /\ UNCHANGED nreq
    /\ UNCHANGED <<items, currentItemId, categoryVars, sizeOptionVars>>
    /\ LET c == createStorageContainer(gridConfig)
       IN  /\ storageContainers' = c.storageContainers
           /\ gridConfigs' = c.gridConfigs
           /\ currentContainerId' = c.next
           /\ Served([gridConfig |-> gridConfig]
                       @@ Req("createContainer", c.returned.id, NoData, <<>>),
                     [container |-> c.returned] @@ Plain(201), <<>>)

\* POST /api/items
CreateItemReq(body) ==
    /\ nreq < maxreq
    /\ nreq' = nreq + 1
    /\ currentItemId <= MaxItemId
    /\ UNCHANGED <<containerVars, categoryVars, sizeOptionVars>>
    /\ IF body.name = NoName
       THEN /\ UNCHANGED <<items, currentItemId>>
            /\ Served(Req("createItem", 0, body, <<>>), Plain(400), <<>>)
       ELSE LET c == createItem(Store, body)
            IN  /\ items' = c.items
                /\ currentItemId' = c.next
                /\ Served(Req("createItem", c.id, body, <<>>),
                          IF c.threw THEN Plain(500)
                          ELSE [item |-> c.items[c.id]] @@ Plain(201), <<>>)

\* PATCH /api/items/:id
UpdateItemReq(id, patch) ==
    /\ nreq < maxreq
    /\ nreq' = nreq + 1
    /\ UNCHANGED <<containerVars, categoryVars, sizeOptionVars>>
    /\ LET u == updateItem(Store, id, patch)
       IN  /\ items' = u.items
           /\ currentItemId' = u.next
           /\ Served(Req("updateItem", id, patch, <<>>),
                     Plain(IF u.threw THEN 500 ELSE IF u.id = 0 THEN 404 ELSE 200),
                     <<>>)

\* DELETE /api/items/:id
DeleteItemReq(id) ==
    /\ nreq < maxreq
    /\ nreq' = nreq + 1
    /\ UNCHANGED <<containerVars, categoryVars, sizeOptionVars>>
    /\ LET d == deleteItem(Store, id)
       IN  /\ items' = d.items
           /\ currentItemId' = d.next
           /\ Served(Req("deleteItem", id, NoData, <<>>),
                     Plain(IF d.id = 0 THEN 404 ELSE 204), <<>>)

\* mutant: the import also creates the category a record embeds
ImportReq_UpsertingCategories(batch) ==
    /\ nreq < maxreq
    /\ nreq' = nreq + 1
    /\ UNCHANGED <<containerVars, sizeOptionVars, currentCategoryId>>
    /\ categories' = categories \cup
                       ({batch[k].category : k \in 1..Len(batch)} \ {0})
    /\ LET L == importAll(batch)
       IN  /\ L.next <= MaxItemId + 1
           /\ items' = L.items
           /\ currentItemId' = L.next
           /\ Served(Req("import", 0, NoData, batch),
                     IF L.aborted THEN Plain(500)
                     ELSE [status |-> 200, imported |-> L.imported,
                           updated |-> L.updated, failed |-> L.failed,
                           total |-> Len(batch), errors |-> L.errors],
                     L.trace)

\* POST /api/import with an items array
ImportReq(batch) ==
    /\ nreq < maxreq
    /\ nreq' = nreq + 1
    /\ UNCHANGED <<containerVars, categoryVars, sizeOptionVars>>
    /\ LET L == importAll(batch)
       IN  /\ L.next <= MaxItemId + 1
           /\ items' = L.items
           /\ currentItemId' = L.next
           /\ Served(Req("import", 0, NoData, batch),
                     IF L.aborted THEN Plain(500)
                     ELSE [status |-> 200, imported |-> L.imported,
                           updated |-> L.updated, failed |-> L.failed,
                           total |-> Len(batch), errors |-> L.errors],
                     L.trace)

\* POST /api/import whose body has no items array: answered 400 by the
\* payload check; past the check, iterating the value throws into the outer
\* catch (500)
ImportInvalidReq(payload) ==
    /\ nreq < maxreq
    /\ nreq' = nreq + 1
    /\ UNCHANGED <<items, currentItemId, containerVars, categoryVars,
                   sizeOptionVars>>
    /\ Served([Req("importInvalid", 0, NoData, <<>>) EXCEPT !.payload = payload],
              Plain(IF isItemsArray(payload) THEN 500 ELSE 400), <<>>)

\* GET /api/export followed by POST /api/import of the exported items
ReimportExportReq == ImportReq(getItems(items))

Next ==
    \/ CreateContainerReq(DefaultGrid)
    \/ \E body \in ItemBodies : CreateItemReq(body)
    \/ \E id \in RecordIds \ {0}, patch \in Patches : UpdateItemReq(id, patch)
    \/ \E id \in RecordIds \ {0} : DeleteItemReq(id)
    \/ \E batch \in Batches : ImportReq(batch)
    \/ \E payload \in PayloadKinds : ImportInvalidReq(payload)
    \/ ReimportExportReq

Spec == Init /\ [][Next]_vars

(***************************************************************************)
(* The handlers of the other entity kinds, and the specification of the    *)
(* whole store: every kind's create and delete, and the import.            *)
(***************************************************************************)

\* DELETE /api/containers/:id
DeleteContainerReq(id) ==
    /\ nreq < maxreq
    /\ nreq' = nreq + 1
    /\ UNCHANGED <<items, currentItemId, currentContainerId, categoryVars,
                   sizeOptionVars>>
    /\ LET d == deleteStorageContainer(id)
       IN  /\ storageContainers' = d.storageContainers
           /\ gridConfigs' = [i \in d.storageContainers |-> gridConfigs[i]]
           /\ Served(Req("deleteContainer", id, NoData, <<>>), Deleted(d), <<>>)

\* POST /api/categories
CreateCategoryReq(body) ==
    /\ nreq < maxreq
    /\ nreq' = nreq + 1
    /\ UNCHANGED <<items, currentItemId, containerVars, sizeOptionVars>>
    /\ LET c == createCategory(body)
       IN  /\ categories' = c.categories
           /\ currentCategoryId' = c.next
           /\ Served(Req("createCategory", c.id, NoData, <<>>),
                     Plain(IF c.threw THEN 500 ELSE 201), <<>>)

\* DELETE /api/categories/:id
DeleteCategoryReq(id) ==
    /\ nreq < maxreq
    /\ nreq' = nreq + 1
    /\ UNCHANGED <<items, currentItemId, containerVars, sizeOptionVars,
                   currentCategoryId>>
    /\ LET d == deleteCategory(id)
       IN  /\ categories' = d.categories
           /\ Served(Req("deleteCategory", id, NoData, <<>>), Deleted(d), <<>>)

\* POST /api/size-options
CreateSizeOptionReq(body) ==
    /\ nreq < maxreq
    /\ nreq' = nreq + 1
    /\ UNCHANGED <<items, currentItemId, containerVars, categoryVars>>
    /\ LET c == createSizeOption(body)
       IN  /\ sizeOptions' = c.sizeOptions
           /\ currentSizeOptionId' = c.next
           /\ Served([body |-> body] @@ Req("createSizeOption", c.id, NoData, <<>>),
                     IF c.threw THEN Plain(500)
                     ELSE [sizeOption |-> c.sizeOptions[c.id]] @@ Plain(201),
                     <<>>)

\* PATCH /api/size-options/:id
UpdateSizeOptionReq(id, patch) ==
    /\ nreq < maxreq
    /\ nreq' = nreq + 1
    /\ UNCHANGED <<items, currentItemId, containerVars, categoryVars,
                   currentSizeOptionId>>
    /\ LET u == updateSizeOption(id, patch)
       IN  /\ sizeOptions' = u.sizeOptions
           /\ Served([body |-> patch] @@ Req("updateSizeOption", id, NoData, <<>>),
                     Plain(IF u.id = 0 THEN 404 ELSE 200), <<>>)

\* GET /api/size-options
ListSizeOptionsReq ==
    /\ nreq < maxreq
    /\ nreq' = nreq + 1
    /\ UNCHANGED <<items, currentItemId, containerVars, categoryVars,
                   sizeOptionVars>>
    /\ \E listing \in getSizeOptions :
           Served(Req("listSizeOptions", 0, NoData, <<>>),
                  [list |-> listing] @@ Plain(200), <<>>)

\* DELETE /api/size-options/:id
DeleteSizeOptionReq(id) ==
    /\ nreq < maxreq
    /\ nreq' = nreq + 1
    /\ UNCHANGED <<items, currentItemId, containerVars, categoryVars,
                   currentSizeOptionId>>
    /\ LET d == deleteSizeOption(id)
       IN  /\ sizeOptions' = d.sizeOptions
           /\ Served(Req("deleteSizeOption", id, NoData, <<>>), Deleted(d), <<>>)

\* item bodies and import batches of the store specification: records with
\* ids, a record that embeds a category no category table row backs
StoreItemBodies ==
    {[name |-> "a", containerId |-> 1, position |-> [row |-> 0, column |-> 0],
      categoryId |-> c, quantity |-> NoQuantity, information |-> NoInfo] :
        c \in {0, 1}}
    \cup {[name |-> "a", containerId |-> 1,
           position |-> [row |-> 0, column |-> 0], categoryId |-> 0,
           quantity |-> q, information |-> NoInfo] : q \in {0, 2}}

IdRecords ==
    {Rec(1, "b", 1, [row |-> 0, column |-> 1], 0, 0),
     Rec(2, "b", 1, [row |-> 0, column |-> 0], 0, 0)}

StoreBatches ==
    {<<r>> : r \in IdRecords}
    \cup {<<Rec(0, "a", 1, [row |-> 0, column |-> 0], 0, NumDefaultCategories + 1)>>}
    \cup (IF MaxBatch >= 2
          THEN {<<Rec(1, "a", 1, [row |-> 0, column |-> 0], 2, 0),
                  Rec(1, "b", 1, [row |-> 0, column |-> 1], 0, 0)>>}
          ELSE {})
    \cup UNION {[1..n -> {Rec(1, "b", 1, [row |-> 0, column |-> 1], 0, 0)}] :
                  n \in 3..MaxBatch}

StoreInit == Constructed /\ maxreq = MaxStoreRequests

StoreNext ==
    \/ CreateContainerReq(DefaultGrid)
    \/ \E id \in DeletableContainerIds : DeleteContainerReq(id)
    \/ \E body \in CategoryBodies : CreateCategoryReq(body)
    \/ \E id \in DeletableCategoryIds : DeleteCategoryReq(id)
    \/ \E body \in SizeOptionBodies : CreateSizeOptionReq(body)
    \/ \E id \in UpdatableSizeOptionIds, patch \in SizeOptionPatches :
           UpdateSizeOptionReq(id, patch)
    \/ ListSizeOptionsReq
    \/ \E id \in DeletableSizeOptionIds : DeleteSizeOptionReq(id)
    \/ \E body \in StoreItemBodies : CreateItemReq(body)
    \/ \E id \in DeletableItemIds : DeleteItemReq(id)
    \/ \E batch \in StoreBatches : ImportReq(batch)

StoreSpec == StoreInit /\ [][StoreNext]_vars

(***************************************************************************)
(* The read handlers, and the specification of the queries: item creates,  *)
(* category deletes, and every read of the store.                          *)
(***************************************************************************)

\* String.includes(query) and LIKE %query% over the one-letter texts of the
\* model; an absent text matches nothing
includes(text, query) == text \notin {NoName, NoInfo} /\ text = query

\* The `fields` argument the handler passes is not a parameter of either
\* searchItems.  MemStorage matches name or information over the items
\* whose container exists, and item.name.toLowerCase() throws on an item
\* without a name; DatabaseStorage matches the name only.
searchItems(query) ==
    IF backend = "mem"
    THEN [threw |-> \E i \in DOMAIN items : items[i].name = NoName,
          results |-> {i \in DOMAIN items :
                         /\ \/ includes(items[i].name, query)
                            \/ includes(items[i].information, query)
                         /\ items[i].containerId \in storageContainers}]
    ELSE [threw |-> FALSE,
          results |-> {i \in DOMAIN items : includes(items[i].name, query)}]

\* the query string: q ("" when absent) and fields ({} when absent)
Queries == {"", "b"}
FieldLists == {{}, {"name"}, {"name", "information"}}

\* fields ? fields.split(',') : ['name']
searchFields(fields) == IF fields = {} THEN {"name"} ELSE fields

\* GET /api/search
SearchReq(query, fields) ==
    /\ nreq < maxreq
    /\ nreq' = nreq + 1
    /\ UNCHANGED <<items, currentItemId, containerVars, categoryVars,
                   sizeOptionVars>>
    /\ LET found == searchItems(query)
       IN  Served([query |-> query, fields |-> searchFields(fields)]
                    @@ Req("search", 0, NoData, <<>>),
                  IF query = "" THEN Plain(400)
                  ELSE IF found.threw THEN Plain(500)
                  ELSE [results |-> found.results] @@ Plain(200), <<>>)

\* GET /api/items
ListItemsReq ==
    /\ nreq < maxreq
    /\ nreq' = nreq + 1
    /\ UNCHANGED <<items, currentItemId, containerVars, categoryVars,
                   sizeOptionVars>>
    /\ Served(Req("listItems", 0, NoData, <<>>),
              [list |-> getItems(items)] @@ Plain(200), <<>>)

getStorageContainers ==
    [k \in 1..Cardinality(storageContainers) |->
        getStorageContainer(idsInOrder(storageContainers)[k])]

\* mutant: the export leaves the size options out
ExportReq_WithoutSizeOptions ==
    /\ nreq < maxreq
    /\ nreq' = nreq + 1
    /\ UNCHANGED <<items, currentItemId, containerVars, categoryVars,
                   sizeOptionVars>>
    /\ Served(Req("export", 0, NoData, <<>>),
              [containers |-> getStorageContainers, categories |-> categories,
               sizeOptions |-> <<>>, items |-> getItems(items)]
              @@ Plain(200), <<>>)

\* GET /api/export
ExportReq ==
    /\ nreq < maxreq
    /\ nreq' = nreq + 1
    /\ UNCHANGED <<items, currentItemId, containerVars, categoryVars,
                   sizeOptionVars>>
    /\ \E listing \in getSizeOptions :
           Served(Req("export", 0, NoData, <<>>),
                  [containers |-> getStorageContainers, categories |-> categories,
                   sizeOptions |-> listing, items |-> getItems(items)]
                  @@ Plain(200), <<>>)

QueryItemBodies ==
    {[name |-> "a", containerId |-> 1, position |-> [row |-> 0, column |-> 0],
      categoryId |-> c, quantity |-> NoQuantity, information |-> i] :
        c \in {0, 1}, i \in {NoInfo, "b"}}

QueryInit == Constructed /\ maxreq = MaxQueryRequests

QueryNext ==
    \/ \E gridConfig \in GridConfigs : CreateContainerReq(gridConfig)
    \/ \E body \in QueryItemBodies : CreateItemReq(body)
    \/ \E id \in DeletableCategoryIds : DeleteCategoryReq(id)
    \/ \E query \in Queries, fields \in FieldLists : SearchReq(query, fields)
    \/ ListItemsReq
    \/ ExportReq

QuerySpec == QueryInit /\ [][QueryNext]_vars

(***************************************************************************)
(* Two import requests served concurrently.  A handler runs until its next *)
(* await: the position lookup of a record is one step, the store call that *)
(* writes the record is another, and the steps of the two handlers         *)
(* interleave.  The records carry no id.                                   *)
(***************************************************************************)
IdlessRecords ==
    {Rec(0, "a", 1, [row |-> 0, column |-> 0], 0, 0),
     Rec(0, "b", 1, [row |-> 0, column |-> 0], 0, 0),
     Rec(0, "b", 1, [row |-> 0, column |-> 1], 0, 0)}

ConcurrentBatches == UNION {[1..n -> IdlessRecords] : n \in 1..MaxBatch}

\* the records the imports in flight can still create
Pending == LET Left(p) == IF imports[p].pc = "idle" THEN 0
                          ELSE Len(imports[p].batch) - imports[p].k + 1
           IN  Left(1) + Left(2)

\* POST /api/import arrives
StartImport(p, batch) ==
    /\ imports[p].pc = "idle"
    /\ (currentItemId - 1) + Pending + Len(batch) <= MaxItemId
    /\ imports' = [imports EXCEPT ![p] = [pc |-> "lookup", batch |-> batch,
                                          k |-> 1, found |-> 0]]
    /\ UNCHANGED <<backend, items, currentItemId, containerVars, categoryVars,
                   sizeOptionVars, request, response, before, trace, nreq,
                   assigned, maxreq>>

\* await storage.getItemByPosition(...)
Lookup(p) ==
    /\ imports[p].pc = "lookup"
    /\ LET clean == cleanItem(imports[p].batch[imports[p].k])
       IN  imports' = [imports EXCEPT
                         ![p].found = getItemByPosition(Store, clean.containerId,
                                                        clean.position),
                         ![p].pc = "write"]
    /\ UNCHANGED <<backend, items, currentItemId, containerVars, categoryVars,
                   sizeOptionVars, request, response, before, trace, nreq,
                   assigned, maxreq>>

\* await storage.updateItem(...) or await storage.createItem(...), decided
\* by the answer the lookup gave
Write(p) ==
    /\ imports[p].pc = "write"
    /\ LET r == mergeRecord(Store, cleanItem(imports[p].batch[imports[p].k]),
                            imports[p].found)
       IN  /\ items' = r.items
           /\ currentItemId' = r.next
    /\ imports' = [imports EXCEPT
                     ![p].k = @ + 1,
                     ![p].pc = IF imports[p].k = Len(imports[p].batch)
                               THEN "done" ELSE "lookup"]
    /\ UNCHANGED <<backend, containerVars, categoryVars, sizeOptionVars,
                   request, response, before, trace, nreq, assigned, maxreq>>

ConcurrentInit == Constructed /\ maxreq = 0

ConcurrentNext ==
    \/ CreateContainerReq(DefaultGrid)
    \/ \E p \in Connections, batch \in ConcurrentBatches : StartImport(p, batch)
    \/ \E p \in Connections : Lookup(p)
    \/ \E p \in Connections : Write(p)

ConcurrentSpec == ConcurrentInit /\ [][ConcurrentNext]_vars

TypeOK ==
    /\ backend \in {"mem", "db"}
    /\ currentItemId \in 1..(MaxItemId + 1)
    /\ DOMAIN items \subseteq 1..(currentItemId - 1)

(***************************************************************************)
(* Properties.                                                             *)
(***************************************************************************)

\* no two distinct items of one container report the same (row, column)
PositionUnique(its) ==
    \A i, j \in DOMAIN its :
        (/\ i # j
         /\ its[i].containerId = its[j].containerId
         /\ its[i].position = its[j].position) => FALSE

IsImport == request.op = "import"

\* the store as record k of the last import found it / left it
StoreBefore(k) ==
    IF k = 1 THEN before
    ELSE [items |-> trace[k - 1].items, next |-> trace[k - 1].next]
StoreAfter(k) == [items |-> trace[k].items, next |-> trace[k].next]

\* C1: in every reachable state no two distinct items of the same container
\* have the same position.
C1_PositionUniqueness == PositionUnique(items)

\* C2: an import applied to a store without position collisions leaves a
\* store without position collisions.
C2_ImportKeepsPositionsUnique ==
    (IsImport /\ PositionUnique(before.items)) => PositionUnique(items)

\* the records of the last import that were reached, by position in the batch
Steps == IF IsImport THEN 1..Len(trace) ELSE {}
RecordAt(k) == request.batch[k]
IsObject(k) == RecordAt(k).kind = "obj"

\* the items at the cell a record names, before the record was processed
OccupantsBefore(k) ==
    occupants(StoreBefore(k).items, RecordAt(k).containerId, RecordAt(k).position)

\* the item a record describes: its fields, the category object reduced to its id
FieldsOf(r) ==
    [name |-> r.name, containerId |-> r.containerId, position |-> r.position,
     categoryId |-> IF r.categoryId # 0 THEN r.categoryId ELSE r.category,
     quantity |-> IF r.quantity = NoQuantity THEN 1 ELSE r.quantity,
     information |-> r.information]

\* an existing item overwritten with the fields a record supplies
Overlay(old, r) ==
    [name |-> IF r.name = NoName THEN old.name ELSE r.name,
     containerId |-> r.containerId,
     position |-> r.position,
     categoryId |-> IF FieldsOf(r).categoryId = 0 THEN old.categoryId
                    ELSE FieldsOf(r).categoryId,
     quantity |-> IF r.quantity = NoQuantity THEN old.quantity ELSE r.quantity,
     information |-> IF r.information = NoInfo THEN old.information
                     ELSE r.information]

\* the database refuses the row (the in-memory store refuses nothing)
Rejects(row) ==
    /\ backend = "db"
    /\ \/ row.name = NoName
       \/ row.containerId \notin storageContainers
       \/ row.categoryId \notin categories \cup {0}

IsCaseA(k) == IsObject(k) /\ RecordAt(k).id \in DOMAIN StoreBefore(k).items
IsCaseB(k) == IsObject(k) /\ RecordAt(k).id # 0
                          /\ RecordAt(k).id \notin DOMAIN StoreBefore(k).items
IsCaseC(k) == IsObject(k) /\ RecordAt(k).id = 0

\* record k created exactly one item, with the store's next id and its fields
CreatedFrom(k, base) ==
    StoreAfter(k).items = (StoreBefore(k).next :> FieldsOf(RecordAt(k))) @@ base

\* C3: a record whose id no item has and whose cell is occupied by an item X:
\* X is deleted, a new item with a store-assigned fresh id is created from
\* the record's fields, exactly one item occupies the cell afterwards and
\* the record is counted in imported.
C3_CaseBEviction ==
    \A k \in Steps :
        (IsCaseB(k) /\ OccupantsBefore(k) # {}) =>
            /\ \E x \in OccupantsBefore(k) :
                   /\ x \notin DOMAIN StoreAfter(k).items
                   /\ CreatedFrom(k, [i \in DOMAIN StoreBefore(k).items \ {x}
                                        |-> StoreBefore(k).items[i]])
            /\ StoreBefore(k).next \notin DOMAIN StoreBefore(k).items
            /\ Cardinality(occupants(StoreAfter(k).items, RecordAt(k).containerId,
                                     RecordAt(k).position)) = 1
            /\ trace[k].outcome = "imported"

\* C4 as stated: a record without id updates the item at its cell in place
\* (no item created, counted in updated), or, the cell being empty, creates
\* an item (counted in imported).
C4_CaseCAsStated ==
    \A k \in Steps :
        IsCaseC(k) =>
            IF OccupantsBefore(k) # {}
            THEN /\ trace[k].outcome = "updated"
                 /\ \E x \in OccupantsBefore(k) :
                        StoreAfter(k).items =
                            [StoreBefore(k).items EXCEPT ![x] = Overlay(@, RecordAt(k))]
            ELSE /\ trace[k].outcome = "imported"
                 /\ CreatedFrom(k, StoreBefore(k).items)

\* C4 (amended): a record without id that the store does not reject updates
\* the item at its cell in place (no item created, counted in updated), or,
\* the cell being empty, creates an item (counted in imported); a record the
\* store rejects is counted in failed and leaves the items as they were.
C4_CaseC ==
    \A k \in Steps :
        IsCaseC(k) =>
            IF OccupantsBefore(k) # {}
            THEN \E x \in OccupantsBefore(k) :
                    IF Rejects(Overlay(StoreBefore(k).items[x], RecordAt(k)))
                    THEN /\ trace[k].outcome = "failed"
                         /\ StoreAfter(k) = StoreBefore(k)
                    ELSE /\ trace[k].outcome = "updated"
                         /\ StoreAfter(k).next = StoreBefore(k).next
                         /\ StoreAfter(k).items =
                              [StoreBefore(k).items EXCEPT ![x] = Overlay(@, RecordAt(k))]
            ELSE IF Rejects(FieldsOf(RecordAt(k)))
                 THEN /\ trace[k].outcome = "failed"
                      /\ StoreAfter(k) = StoreBefore(k)
                 ELSE /\ trace[k].outcome = "imported"
                      /\ CreatedFrom(k, StoreBefore(k).items)

\* an import overwrote an occupied cell and filled an empty one
C4_Witness ==
    /\ \E k \in Steps : /\ IsCaseC(k) /\ OccupantsBefore(k) # {}
                        /\ trace[k].outcome = "updated"
                        /\ StoreAfter(k).items # StoreBefore(k).items
    /\ \E k \in Steps : /\ IsCaseC(k) /\ OccupantsBefore(k) = {}
                        /\ trace[k].outcome = "imported"

\* the other items at the cell a record names
OthersAtTarget(k) == OccupantsBefore(k) \ {RecordAt(k).id}

\* item RecordAt(k).id took the record's fields and nothing else changed
MergedById(k) ==
    /\ StoreAfter(k).next = StoreBefore(k).next
    /\ StoreAfter(k).items =
         [StoreBefore(k).items EXCEPT ![RecordAt(k).id] = Overlay(@, RecordAt(k))]
    /\ \A y \in OthersAtTarget(k) :
         /\ y \in DOMAIN StoreAfter(k).items
         /\ StoreAfter(k).items[y] = StoreBefore(k).items[y]
         /\ StoreAfter(k).items[y].position
              = StoreAfter(k).items[RecordAt(k).id].position
         /\ StoreAfter(k).items[y].containerId
              = StoreAfter(k).items[RecordAt(k).id].containerId

\* C5 as stated: a record with the id of an existing item is merged onto that
\* item and counted in updated; an item already at the target cell is neither
\* deleted nor modified, and both then report the same cell.
C5_CaseAAsStated ==
    \A k \in Steps :
        IsCaseA(k) => (trace[k].outcome = "updated" /\ MergedById(k))

\* C5 (amended): the same, unless the store rejects the update, in which case
\* the record is counted in failed and no item changes.
C5_CaseA ==
    \A k \in Steps :
        IsCaseA(k) =>
            IF Rejects(Overlay(StoreBefore(k).items[RecordAt(k).id], RecordAt(k)))
            THEN trace[k].outcome = "failed" /\ StoreAfter(k) = StoreBefore(k)
            ELSE trace[k].outcome = "updated" /\ MergedById(k)

\* an import moved an item by id onto a cell another item holds
C5_Witness ==
    \E k \in Steps :
        /\ IsCaseA(k)
        /\ trace[k].outcome = "updated"
        /\ OthersAtTarget(k) # {}
        /\ StoreBefore(k).items[RecordAt(k).id].position # RecordAt(k).position

SameCell(r1, r2) == r1.containerId = r2.containerId /\ r1.position = r2.position

\* records k and k+1 are ID-less, name the same cell of an existing
\* container, and the cell was empty
TwoForOneEmptyCell(k) ==
    /\ k + 1 \in Steps
    /\ RecordAt(k).containerId \in storageContainers
    /\ IsCaseC(k) /\ IsCaseC(k + 1)
    /\ SameCell(RecordAt(k), RecordAt(k + 1))
    /\ OccupantsBefore(k) = {}

\* first imported, second updated, one item in the cell with the second's fields
FirstCreatesSecondOverwrites(k) ==
    /\ trace[k].outcome = "imported"
    /\ trace[k + 1].outcome = "updated"
    /\ Len(request.batch) = 2 => (response.imported = 1 /\ response.updated = 1)
    /\ \E x \in DOMAIN StoreAfter(k + 1).items :
         /\ occupants(StoreAfter(k + 1).items, RecordAt(k).containerId,
                      RecordAt(k).position) = {x}
         /\ StoreAfter(k + 1).items[x]
              = Overlay(FieldsOf(RecordAt(k)), RecordAt(k + 1))

\* C8 as stated: records are processed in input order and each position lookup
\* sees the writes of the earlier records: two ID-less records for the same
\* empty cell yield imported for the first, updated for the second and one
\* item in the cell, holding the second record's fields.
C8_InOrderAsStated ==
    \A k \in Steps : TwoForOneEmptyCell(k) => FirstCreatesSecondOverwrites(k)

\* C8 (amended): the same for two such records that the store accepts.
C8_InOrder ==
    \A k \in Steps :
        (/\ TwoForOneEmptyCell(k)
         /\ ~Rejects(FieldsOf(RecordAt(k)))
         /\ ~Rejects(Overlay(FieldsOf(RecordAt(k)), RecordAt(k + 1))))
        => FirstCreatesSecondOverwrites(k)

\* a batch of two differently named ID-less records for one empty cell was imported
C8_Witness ==
    /\ IsImport
    /\ Len(request.batch) = 2 /\ Len(trace) = 2
    /\ TwoForOneEmptyCell(1)
    /\ RecordAt(1).name # RecordAt(2).name /\ RecordAt(2).name # NoName
    /\ response.imported = 1 /\ response.updated = 1

IdLess(batch) == \A i \in 1..Len(batch) : batch[i].kind = "obj" /\ batch[i].id = 0
ContainersOf(batch) == {batch[i].containerId : i \in 1..Len(batch)}
CountIn(its, batch) ==
    Cardinality({i \in DOMAIN its : its[i].containerId \in ContainersOf(batch)})
DistinctCells(batch) ==
    \A i, j \in 1..Len(batch) : SameCell(batch[i], batch[j]) => i = j
Accepted(batch) == \A i \in 1..Len(batch) : ~Rejects(FieldsOf(batch[i]))

\* this step is the second of two imports in a row of one ID-less batch, the
\* first of which found the batch's containers existing and empty
SecondRunOfIdLessBatch ==
    /\ IsImport /\ request'.op = "import" /\ nreq' = nreq + 1
    /\ request'.batch = request.batch
    /\ IdLess(request.batch)
    /\ ContainersOf(request.batch) \subseteq storageContainers
    /\ CountIn(before.items, request.batch) = 0

RunsConverge ==
    /\ response.imported = Len(request.batch)
    /\ response'.updated = Len(request.batch)
    /\ CountIn(items', request.batch) = Len(request.batch)

\* C9 as stated: importing an ID-less batch B twice in a row against an
\* initially empty container yields imported = len(B), then updated = len(B),
\* and len(B) items in the end.
C9_ConvergenceAsStated == [][SecondRunOfIdLessBatch => RunsConverge]_vars

\* C9 (amended): the same for a batch of records the store accepts, no two of
\* which name the same cell.
C9_Convergence ==
    [][(/\ SecondRunOfIdLessBatch
        /\ DistinctCells(request.batch)
        /\ Accepted(request.batch)) => RunsConverge]_vars

\* the state after the second run of a two-record ID-less batch
C9_Witness ==
    /\ IsImport /\ IdLess(request.batch) /\ Len(request.batch) = 2
    /\ DistinctCells(request.batch)
    /\ response.updated = 2 /\ response.imported = 0
    /\ ContainersOf(request.batch) \subseteq storageContainers
    /\ Accepted(request.batch)
    /\ before.items = items
    /\ DOMAIN items = {1, 2}
    /\ \A i \in 1..2 : items[i] = FieldsOf(request.batch[i])

\* this step imports the export of the items an import has just left
ReimportOfExport ==
    /\ IsImport /\ request'.op = "import" /\ nreq' = nreq + 1
    /\ request'.batch = getItems(items)

\* C10 as stated: after importing a batch B, importing the exact export of
\* the resulting items yields updated = len(B), imported = 0, failed = 0 and
\* leaves the items unchanged.
C10_ReimportAsStated ==
    [][ReimportOfExport =>
        /\ response'.status = 200
        /\ response'.updated = Len(request.batch)
        /\ response'.imported = 0 /\ response'.failed = 0
        /\ items' = items]_vars

\* C10 (amended): ... yields updated = the number of exported items,
\* imported = 0, failed = 0 and leaves the items unchanged.
C10_Reimport ==
    [][ReimportOfExport =>
        /\ response'.status = 200
        /\ response'.updated = Cardinality(DOMAIN items)
        /\ response'.total = Cardinality(DOMAIN items)
        /\ response'.imported = 0 /\ response'.failed = 0
        /\ items' = items /\ currentItemId' = currentItemId]_vars

\* an export with ids and a resolved category object has been re-imported
C10_Witness ==
    /\ IsImport
    /\ request.batch = getItems(before.items)
    /\ Len(request.batch) >= 1
    /\ \E i \in 1..Len(request.batch) :
         request.batch[i].id # 0 /\ request.batch[i].category # 0
    /\ response.updated = Len(request.batch)
    /\ items = before.items

\* C6: every import of an items array answers with a summary in which
\* imported + updated + failed = total and total is the length of the input.
C6_SummaryAccounting ==
    IsImport =>
        /\ response.status = 200
        /\ response.imported + response.updated + response.failed = response.total
        /\ response.total = Len(request.batch)

\* C7: a failing record is counted in failed with one error entry, the batch
\* is never aborted (every record is processed) and the request answers
\* success with the summary.
C7_FailureIsolation ==
    IsImport =>
        /\ response.status = 200
        /\ Len(trace) = Len(request.batch)
        /\ response.failed = Cardinality({k \in 1..Len(trace) :
                                            trace[k].outcome = "failed"})
        /\ Len(response.errors) = response.failed

\* a record names a container or a category that does not exist
RefersToMissing(r) ==
    \/ r.containerId \notin storageContainers
    \/ FieldsOf(r).categoryId \notin categories \cup {0}

\* C12: an imported record whose containerId or categoryId refers to no
\* existing container or category is rejected by the store, creates or
\* changes no item and is counted in failed.
C12_DanglingReferenceFails ==
    \A k \in Steps :
        (IsObject(k) /\ RefersToMissing(RecordAt(k))) =>
            /\ trace[k].outcome = "failed"
            /\ StoreAfter(k).items = StoreBefore(k).items

\* the items record k may have written: the item of its id, the item it
\* created, or an item that was at its cell
Targets(k) ==
    IF IsCaseA(k) THEN {RecordAt(k).id}
    ELSE IF trace[k].outcome = "imported" THEN {StoreBefore(k).next}
    ELSE OccupantsBefore(k)

\* the categoryId record k leaves in item x: the record's own categoryId,
\* else the id of its category object, else what the item had
CategoryIdFrom(k, x) ==
    IF RecordAt(k).categoryId # 0 THEN RecordAt(k).categoryId
    ELSE IF RecordAt(k).category # 0 THEN RecordAt(k).category
    ELSE IF x \in DOMAIN StoreBefore(k).items
         THEN StoreBefore(k).items[x].categoryId
    ELSE 0

ItemColumns == {"name", "containerId", "position", "categoryId", "quantity",
                "information"}

\* C13: the category object of a record is never persisted; the stored
\* categoryId is the record's categoryId when it has one, and the id of the
\* category object exactly when the record has no categoryId and carries a
\* category object.
C13_CategoryNormalization ==
    \A k \in Steps :
        (IsObject(k) /\ trace[k].outcome \in {"imported", "updated"}) =>
            \E x \in Targets(k) :
                /\ x \in DOMAIN StoreAfter(k).items
                /\ DOMAIN StoreAfter(k).items[x] = ItemColumns
                /\ StoreAfter(k).items[x].categoryId = CategoryIdFrom(k, x)

\* a record with a category object and no categoryId was imported as a new item
C13_Witness ==
    \E k \in Steps :
        /\ IsObject(k)
        /\ RecordAt(k).category # 0 /\ RecordAt(k).categoryId = 0
        /\ trace[k].outcome = "imported"
        /\ StoreAfter(k).items[StoreBefore(k).next].categoryId = RecordAt(k).category

\* C16: immediately after an item create, the position lookup for the created
\* item's cell returns that item's id and no other item of the container
\* occupies the cell.
C16_CreateThenLookup ==
    (request.op = "createItem" /\ response.status = 201) =>
        /\ getItemByPosition(Store, request.data.containerId, request.data.position)
             = request.id
        /\ occupants(items, request.data.containerId, request.data.position)
             = {request.id}

\* the last request moved an existing item: a partial update with a position
IsMove ==
    /\ request.op = "updateItem"
    /\ request.id \in DOMAIN before.items
    /\ request.data.position # NoPos
    /\ request.data.containerId = 0

\* the other items at the cell the move names
OthersAtDestination ==
    occupants(before.items, before.items[request.id].containerId,
              request.data.position) \ {request.id}

\* C17: moving an item to an empty cell of its container succeeds; moving it
\* onto a cell occupied by a different item is rejected and the store is
\* unchanged.
C17_InteractiveMove ==
    IsMove =>
        IF OthersAtDestination = {}
        THEN /\ response.status = 200
             /\ items = [before.items EXCEPT
                           ![request.id].position = request.data.position]
        ELSE /\ response.status # 200
             /\ items = before.items

\* the value a partial update leaves in column f of a record
PatchedColumn(old, patch, f) == IF patch[f] = NoData[f] THEN old[f] ELSE patch[f]

\* the record a partial update leaves
Patched(old, patch) == [f \in ItemColumns |-> PatchedColumn(old, patch, f)]

AtCellOf(it, r) ==
    /\ it.containerId = r.containerId
    /\ it.position.row = r.position.row
    /\ it.position.column = r.position.column

C15_InvalidPayloadRejected ==
    (request.op \in {"import", "importInvalid"} /\ request.payload # "array") =>
        /\ response.status = 400
        /\ trace = <<>>
        /\ Store = before

\* a body whose items field is an object was refused by a store that holds items
C15_Witness ==
    /\ request.op = "importInvalid" /\ request.payload = "object"
    /\ response.status = 400
    /\ items # <<>> /\ Store = before

IdBearing(batch) ==
    /\ Len(batch) >= 1
    /\ \A i \in 1..Len(batch) : batch[i].kind = "obj" /\ batch[i].id # 0

\* this step is the second of two imports in a row of one ID-bearing batch,
\* the first of which counted no record in failed
SecondRunOfIdBatch ==
    /\ IsImport /\ request'.op = "import" /\ nreq' = nreq + 1
    /\ request'.batch = request.batch
    /\ IdBearing(request.batch)
    /\ response.status = 200 /\ response.failed = 0

\* every id is found, every record is counted updated, the items are unchanged
SecondRunChangesNothing ==
    /\ \A i \in 1..Len(request.batch) : request.batch[i].id \in DOMAIN items
    /\ response'.status = 200
    /\ response'.updated = Len(request.batch)
    /\ response'.imported = 0 /\ response'.failed = 0
    /\ items' = items

\* C11 as stated: running the same ID-bearing batch twice is idempotent, also
\* when its ids did not exist before the first run: on the second run every
\* id is found, every record is counted updated, nothing is created or
\* deleted and the items equal the items after the first run.
C11_IdBatchIdempotentAsStated ==
    [][SecondRunOfIdBatch => SecondRunChangesNothing]_vars

\* C11 (amended): the same for a batch every id of which existed before the
\* first run.
C11_IdBatchIdempotent ==
    [][(/\ SecondRunOfIdBatch
        /\ \A i \in 1..Len(request.batch) :
               request.batch[i].id \in DOMAIN before.items)
       => SecondRunChangesNothing]_vars

\* the state after the second run of an ID-bearing batch, the first run of
\* which renamed and moved an item that the item create handler had made
C11_Witness ==
    /\ IsImport /\ IdBearing(request.batch)
    /\ response.updated = Len(request.batch) /\ response.imported = 0
    /\ items = before.items
    /\ \E i \in 1..Len(request.batch) :
         /\ request.batch[i].id \in DOMAIN items
         /\ items[request.batch[i].id].categoryId = 1
         /\ items[request.batch[i].id].name = "b"
         /\ items[request.batch[i].id].position = request.batch[i].position

\* C14: an import request never creates, modifies or deletes a container, a
\* category or a size option, whatever its payload contains.
C14_ImportTouchesItemsOnly ==
    [][(request'.op \in {"import", "importInvalid"} /\ nreq' = nreq + 1)
       => UNCHANGED <<containerVars, categoryVars, sizeOptionVars>>]_vars

\* an import created an item from a record that embeds a category which no
\* category of the store backs
C14_Witness ==
    /\ IsImport /\ response.status = 200
    /\ \E k \in Steps :
         /\ RecordAt(k).category # 0
         /\ RecordAt(k).category \notin categories
         /\ trace[k].outcome = "imported"

\* the ids the first k - 1 records of the last import left in the store
IdsBeforeStep(k) == assigned.item \cup idsIn(SubSeq(trace, 1, k - 1))

CreatedAs(op) == request.op = op /\ response.status = 201

C21_SizeOptionsSorted ==
    request.op = "listSizeOptions" =>
        \A i, j \in 1..Len(response.list) :
            i < j => \/ response.list[i].sortOrder < response.list[j].sortOrder
                     \/ /\ response.list[i].sortOrder = response.list[j].sortOrder
                        /\ response.list[i].id < response.list[j].id

\* C22: an item create persists quantity 1 when the quantity is omitted and
\* a size-option create persists sortOrder 0 when the sortOrder is omitted;
\* a supplied value is persisted as supplied; the record the create returns
\* is the persisted record.
C22_CreateDefaults ==
    /\ (request.op = "createItem" /\ response.status = 201) =>
           /\ items[request.id].quantity =
                  (IF request.data.quantity = NoQuantity THEN 1
                   ELSE request.data.quantity)
           /\ response.item = items[request.id]
    /\ (request.op = "createSizeOption" /\ response.status = 201) =>
           /\ sizeOptions[request.id].sortOrder =
                  (IF request.body.sortOrder = NoSortOrder THEN 0
                   ELSE request.body.sortOrder)
           /\ response.sizeOption = sizeOptions[request.id]

\* the items whose text matches the query in the information only
InformationOnly(query) ==
    {i \in DOMAIN items : items[i].name # query /\ items[i].information = query}

\* C23: a search answers without an item that matches the query in its
\* information only when fields is [name], and with it when fields includes
\* information.
C23_SearchFieldRestriction ==
    (request.op = "search" /\ response.status = 200) =>
        \A i \in InformationOnly(request.query) :
            IF "information" \in request.fields THEN i \in response.results
            ELSE i \notin response.results

\* C24: deleting an existing container that still has items succeeds and
\* does not cascade: the store reports that a record existed (the handler
\* answers 204), the container is gone and every item is as it was.
C24_ContainerDeleteNoCascade ==
    [][(/\ request'.op = "deleteContainer"
        /\ request'.id \in storageContainers
        /\ \E i \in DOMAIN items : items[i].containerId = request'.id)
       => (/\ response'.status = 204
           /\ request'.id \notin storageContainers'
           /\ items' = items)]_vars

\* the category a read resolves for an item: absent (0) when the categoryId
\* is null or names no category
Resolved(i) == IF items[i].categoryId \in categories THEN items[i].categoryId ELSE 0

\* C25: deleting a category does not fail and changes no item; every item,
\* also one whose categoryId is null or names a deleted category, is found
\* by id and is in the item listing, with its category resolved as absent
\* when there is none.
C25_WeakCategoryReference ==
    /\ request.op = "deleteCategory" =>
           /\ response.status # 500
           /\ items = before.items
    /\ \A i \in DOMAIN items : getItem(Store, i) = i
    /\ request.op = "listItems" =>
           /\ response.status = 200
           /\ \A i \in DOMAIN items :
                  \E k \in 1..Len(response.list) :
                      /\ response.list[k].id = i
                      /\ response.list[k].category = Resolved(i)

\* the records of a listing stand one to one for the ids S
Lists(listing, S) ==
    /\ Len(listing) = Cardinality(S)
    /\ {listing[k].id : k \in 1..Len(listing)} = S

\* C26: an export answers with all containers, categories, size options and
\* items of the store as it is, and changes nothing in the store.
C26_ExportReadOnlySnapshot ==
    [][request'.op = "export" =>
         /\ response'.status = 200
         /\ Lists(response'.containers, storageContainers)
         /\ response'.categories = categories
         /\ Lists(response'.sizeOptions, DOMAIN sizeOptions)
         /\ \A k \in 1..Len(response'.sizeOptions) :
                response'.sizeOptions[k].sortOrder
                    = sizeOptions[response'.sizeOptions[k].id].sortOrder
         /\ Lists(response'.items, DOMAIN items)
         /\ \A k \in 1..Len(response'.items) :
                \A f \in ItemColumns :
                    response'.items[k][f] = items[response'.items[k].id][f]
         /\ UNCHANGED <<containerVars, categoryVars, sizeOptionVars, items,
                        currentItemId>>]_vars

C26_Witness ==
    /\ request.op = "export"
    /\ response.status = 200
    /\ Len(response.items) >= 2
    /\ Len(response.containers) >= 1
    /\ Len(response.sizeOptions) = NumDefaultSizeOptions

\* C27: after a container create, reading the container by the returned id
\* gives the record the create returned, and its gridConfig is the rows of
\* the request, in the same order and each of the same shape.
C27_ContainerRoundTrip ==
    (request.op = "createContainer" /\ response.status = 201) =>
        /\ getStorageContainer(request.id) = response.container
        /\ response.container.id = request.id
        /\ response.container.gridConfig = request.gridConfig

C27_Witness ==
    /\ request.op = "createContainer"
    /\ response.status = 201
    /\ backend = "db"
    /\ Len(request.gridConfig) = 3
    /\ request.gridConfig[2].isDivider
    /\ Len(gridConfigs[request.id]) > Len(request.gridConfig)

\* C28: a record counted in failed leaves the items as they were before the
\* record was processed.
C28_FailedRecordChangesNothing ==
    \A k \in Steps :
        trace[k].outcome = "failed" => StoreAfter(k).items = StoreBefore(k).items

\* no import request is between its arrival and its answer
Quiescent == \A p \in Connections : imports[p].pc \in {"idle", "done"}

\* C29: whenever no import request is in flight, no two items of a container
\* share a cell, however the store calls of two imports of records without
\* id interleaved.
C29_CollisionsAtMostTransient == Quiescent => PositionUnique(items)

\* the same ids, and the same records except for the item `id`
OnlyChanged(old, new, id) ==
    /\ DOMAIN new = DOMAIN old
    /\ id \in DOMAIN old
    /\ \A i \in DOMAIN old \ {id} : new[i] = old[i]

\* C30: an accepted partial update, an import update by id and an import
\* overwrite at a position leave every item under its id, changing only the
\* target's columns; an item an import creates gets the store's next id,
\* whatever id its record carries.
C30_ItemIdsStable ==
    /\ (request.op = "updateItem" /\ response.status = 200) =>
           OnlyChanged(before.items, items, request.id)
    /\ \A k \in Steps :
           /\ (trace[k].outcome = "updated" /\ IsCaseA(k)) =>
                  OnlyChanged(StoreBefore(k).items, StoreAfter(k).items,
                              RecordAt(k).id)
           /\ (trace[k].outcome = "updated" /\ IsCaseC(k)) =>
                  OnlyChanged(StoreBefore(k).items, StoreAfter(k).items,
                              trace[k].found)
           /\ trace[k].outcome = "imported" =>
                  DOMAIN StoreAfter(k).items \ DOMAIN StoreBefore(k).items
                      = {StoreBefore(k).next}

C30_Witness ==
    /\ IsImport
    /\ \E k \in Steps : /\ IsCaseB(k)
                         /\ trace[k].outcome = "imported"
                         /\ RecordAt(k).id # trace[k].id
                         /\ RecordAt(k).id \notin DOMAIN StoreAfter(k).items

====
